---- MODULE Spec2Model ----
(***************************************************************************)
(* Filesystem cache of babel-loader (src/src/cache.js).                    *)
(*                                                                         *)
(* get(params) = module.exports: resolve the directory, then handleCache:  *)
(* read the entry, on a miss make the directory, transform, write, with a  *)
(* retry of the whole of handleCache against os.tmpdir() when makeDir or   *)
(* write fails and the directory is neither pinned nor already tmpdir.     *)
(*                                                                         *)
(* JavaScript runs the code between two awaits atomically, so one action   *)
(* is one such stretch; several get calls interleave at the awaits.        *)
(***************************************************************************)
EXTENDS Integers, Sequences, FiniteSets, TLC

\* ------------------------------------------------------------------ bounds
\* Number of get calls made in one run of the process.
MaxGets == 2
\* Number of failures the environment injects in one run: a failing
\* readFile, makeDir, transform or writeFile.
MaxFaults == 2

\* ------------------------------------------------------------ optional values
\* A JavaScript value that may be undefined: <<>> is undefined, <<v>> is v.
Undefined == <<>>
Some(v) == <<v>>
IsDefined(m) == m # <<>>
The(m) == m[1]

\* ------------------------------------------------------------- directories
\* os.tmpdir()
TmpDir == "tmp"
\* what findCacheDir({ name: "babel-loader" }) finds in the project
LocalDir == "local"
\* a directory the caller passes as a string
CustomDir == "custom"
Dirs == {LocalDir, TmpDir, CustomDir}

\* ------------------------------------------------------------ path strings
\* A path string is the sequence of its segments between the "/" characters:
\* "/a/node_modules/p" is <<"", "a", "node_modules", "p">>.
Marker == "node_modules"

\* str.split('/node_modules/').slice(-1)[0]: split scans left to right for
\* the separator "/node_modules/", which needs a "/" on both sides, so a
\* marker segment counts only strictly inside the sequence; the match eats
\* both slashes, and the scan goes on in what follows.
RECURSIVE SplitLast(_)
SplitLast(p) ==
    LET hits == {i \in 2..(Len(p) - 1) : p[i] = Marker}
    IN  IF hits = {} THEN p
        ELSE LET i == CHOOSE j \in hits : \A k \in hits : j <= k
             IN  SplitLast(SubSeq(p, i + 1, Len(p)))

\* A string is truthy unless it is empty: "" is the one-segment path <<"">>.
Truthy(m) == IsDefined(m) /\ The(m) # <<"">>

\* updatePath throws a TypeError when item.file is undefined: it destructures
\* `file` (line 61).
UpdatePathThrows(item) == ~IsDefined(item.file)

updatePath(item) ==
    LET file == The(item.file)
        request == file.request
        resolved == file.resolved
    IN  [file |-> Some(
            [request |-> IF Truthy(request) THEN Some(SplitLast(The(request)))
                         ELSE request,
             resolved |-> IF Truthy(resolved) THEN Some(SplitLast(The(resolved)))
                          ELSE resolved])]

\* plugins.map(updatePath) / presets.map(updatePath) over an optional array
MapThrows(arr) ==
    IsDefined(arr) /\ \E i \in 1..Len(The(arr)) : UpdatePathThrows(The(arr)[i])

MapUpdatePath(arr) ==
    IF IsDefined(arr)
    THEN Some([i \in 1..Len(The(arr)) |-> updatePath(The(arr)[i])])
    ELSE arr

FilenameThrows(options) == MapThrows(options.plugins) \/ MapThrows(options.presets)

\* Mutant of filename: the identifier is left out of the hashed contents.
filenameWithoutIdentifier(source, identifier, options) ==
    [source |-> source,
     options |-> [plugins |-> MapUpdatePath(options.plugins),
                  presets |-> MapUpdatePath(options.presets)],
     identifier |-> "v1"]

\* The md4 digest of JSON.stringify({source, options: cacheOptions, identifier})
\* is modelled by the hashed contents themselves: an injective hash.
filename(source, identifier, options) ==
    [source |-> source,
     options |-> [plugins |-> MapUpdatePath(options.plugins),
                  presets |-> MapUpdatePath(options.presets)],
     identifier |-> identifier]

\* Mutant of CacheOptionsOf: cacheOptions is the caller's options object
\* itself, no copy is made.
CacheOptionsOfCaller(options) == [owner |-> "caller", value |-> options]

\* line 89: cacheOptions is a graph of new objects, a deep copy of options
\* made by JSON.parse(JSON.stringify(options)); "owner" says whose objects the
\* graph is made of.
CacheOptionsOf(options) == [owner |-> "copy", value |-> options]

\* The caller's options object after filename ran on it: updatePath assigns
\* to result.file.request / resolved (lines 71 and 74), and result.file is
\* the file object of the item in cacheOptions ({ ...item } copies one level).
OptionsAfterFilename(options) ==
    IF CacheOptionsOf(options).owner = "caller"
    THEN [plugins |-> MapUpdatePath(options.plugins),
          presets |-> MapUpdatePath(options.presets)]
    ELSE options

\* --------------------------------------------------------------- the inputs
PathA == <<"", "home", "a", "node_modules", "preset-env">>
PluginA == [file |-> Some([request |-> Some(PathA), resolved |-> Undefined])]
OptionsA == [plugins |-> Some(<<PluginA>>), presets |-> Undefined]

Sources == {"s1", "s2"}
Identifiers == {"v1"}
OptionsSet == {OptionsA}
\* params.cacheDirectory: a string, or not a string (true, undefined)
CacheDirectories == {Undefined, Some(CustomDir)}
Compressions == {FALSE}

Requests ==
    [source : Sources, options : OptionsSet, cacheIdentifier : Identifiers,
     cacheDirectory : CacheDirectories, cacheCompression : Compressions]

\* Inputs of the calls made one after the other by a single caller (SpecSeq):
\* one request and the requests that differ from it in one parameter.
\* OptionsB, OptionsDeep and OptionsNested differ from OptionsA in what comes
\* before the last "/node_modules/" of file.request only.
PathB == <<"", "home", "b", "node_modules", "preset-env">>
PathDeep == <<"", "home", "a", "node_modules", "x", "node_modules", "preset-env">>
PathNested == <<"", "home", "a", "node_modules", "node_modules", "preset-env">>
PathOther == <<"", "home", "a", "node_modules", "preset-react">>
PluginOf(path) == [file |-> Some([request |-> Some(path), resolved |-> Some(path)])]
OptionsOf(path) == [plugins |-> Some(<<PluginOf(path)>>), presets |-> Undefined]
OptionsB == OptionsOf(PathB)
OptionsDeep == OptionsOf(PathDeep)
OptionsNested == OptionsOf(PathNested)
OptionsOther == OptionsOf(PathOther)
OptionsPreset == [plugins |-> Undefined, presets |-> Some(<<PluginOf(PathB)>>)]
\* {}, { plugins: [{ file: {} }] } and { plugins: [{}] }
OptionsEmpty == [plugins |-> Undefined, presets |-> Undefined]
OptionsNoPaths ==
    [plugins |-> Some(<<[file |-> Some([request |-> Undefined,
                                        resolved |-> Undefined])]>>),
     presets |-> Undefined]
OptionsNoFile == [plugins |-> Some(<<[file |-> Undefined]>>), presets |-> Undefined]

BaseRequest ==
    [source |-> "s1", options |-> OptionsA, cacheIdentifier |-> "v1",
     cacheDirectory |-> Some(CustomDir), cacheCompression |-> FALSE]

RequestsSeq ==
    {BaseRequest}
    \cup {[BaseRequest EXCEPT !.source = x] : x \in {"s2", "s3"}}
    \cup {[BaseRequest EXCEPT !.cacheIdentifier = "v2"]}
    \cup {[BaseRequest EXCEPT !.cacheCompression = TRUE]}
    \cup {[BaseRequest EXCEPT !.cacheDirectory = Undefined]}
    \cup {[BaseRequest EXCEPT !.options = o] :
            o \in {OptionsB, OptionsDeep, OptionsNested, OptionsOther,
                   OptionsPreset, OptionsEmpty, OptionsNoPaths, OptionsNoFile}}

AllRequests == Requests \cup RequestsSeq

\* ------------------------------------------------------- transform and codec
\* transform(source, options): the external collaborator, deterministic. Its
\* result is an object {code, map}: map is a source map, null, or undefined.
SourceMapOf(source) ==
    IF source = "s1" THEN Some("null")
    ELSE IF source = "s2" THEN Some("sourcemap")
    ELSE Undefined

TransformOut(source, options) ==
    [code |-> <<"compiled", source, options>>, map |-> SourceMapOf(source)]

KeyOf(p) == filename(p.source, p.cacheIdentifier, p.options)
Expected(p) == TransformOut(p.source, p.options)

\* A file's bytes: nothing there, bytes that do not decode, or an encoding.
Absent == [kind |-> "absent", gz |-> FALSE, json |-> <<>>]
Garbage == [kind |-> "garbage", gz |-> FALSE, json |-> <<>>]

\* JSON.stringify of a result: its properties in order, each with its value,
\* a property whose value is undefined being left out.
JSONstringify(v) ==
    SelectSeq(<<<<"code", Some(v.code)>>, <<"map", v.map>>>>,
              LAMBDA item : IsDefined(item[2]))

\* JSON.parse of such a text: a property that is not in it reads undefined.
Property(t, name) ==
    IF \E i \in DOMAIN t : t[i][1] = name
    THEN t[CHOOSE i \in DOMAIN t : t[i][1] = name][2]
    ELSE Undefined

\* Mutant of JSONparse: only the code of the entry is read back.
JSONparseCodeOnly(t) == [code |-> The(Property(t, "code")), map |-> Undefined]

JSONparse(t) == [code |-> The(Property(t, "code")), map |-> Property(t, "map")]

\* Mutant of Encode: gzip applied whatever the compress flag says.
EncodeAlwaysGz(result, compress) ==
    [kind |-> "data", gz |-> TRUE, json |-> Some(JSONstringify(result))]

\* write, lines 51-53: the bytes handed to writeFile
Encode(result, compress) ==
    [kind |-> "data", gz |-> compress, json |-> Some(JSONstringify(result))]

\* read, lines 37-39: gunzip when compress, then JSON.parse
Decodes(bytes, compress) == bytes.kind = "data" /\ bytes.gz = compress
Decode(bytes) == JSONparse(The(bytes.json))

\* Mutant of FileOf: the source is left out of the hashed contents.
FileOfWithoutSource(directory, p) ==
    [dir |-> directory, name |-> KeyOf([p EXCEPT !.source = "s1"]),
     gz |-> p.cacheCompression]

\* Mutant of FileOf: ".gz" is never appended to the file name.
FileOfWithoutGz(directory, p) ==
    [dir |-> directory, name |-> KeyOf(p), gz |-> FALSE]

\* ------------------------------------------------------------------- files
\* path.join(directory, filename(...)) + (compress ? ".gz" : "")
FileOf(directory, p) ==
    [dir |-> directory, name |-> KeyOf(p), gz |-> p.cacheCompression]

Files ==
    {FileOf(d, p) : d \in Dirs, p \in {q \in AllRequests : ~FilenameThrows(q.options)}}


\* ------------------------------------------------------------------- state
VARIABLES
    defaultCacheDirectory, \* line 20: null (Undefined) until first resolved
    foundCacheDir,         \* what findCacheDir returns in this process
    files,                 \* the bytes of every entry file
    calls,                 \* the get call each caller is in, or was last in
    gets,                  \* number of get calls made so far
    faults,                \* failures injected so far
    resolutions,           \* history: assignments to defaultCacheDirectory
    lastDone               \* history: the get call that finished last, if any

vars ==
    <<defaultCacheDirectory, foundCacheDir, files, calls, gets, faults,
      resolutions, lastDone>>

\* The callers that may be inside get at the same time; each makes its calls
\* one after the other.
Callers == {"a", "b"}

NoParams == CHOOSE p \in Requests : TRUE
NoRet == [status |-> "none", value |-> Undefined, errOp |-> "", errDir |-> ""]
Returned(v) == [status |-> "ok", value |-> Some(v), errOp |-> "", errDir |-> ""]
Thrown(op, dir) == [status |-> "error", value |-> Undefined, errOp |-> op, errDir |-> dir]

\* A call that has not been made yet.
IdleCall ==
    [pc |-> "idle", params |-> NoParams, options |-> NoParams.options,
     start |-> TmpDir, directory |-> TmpDir,
     result |-> Undefined, ret |-> NoRet, log |-> <<>>, prior |-> Undefined]

\* history: one completed operation of a call. res is "ok", or for a read that
\* threw "absent" (no file), "corrupt" (bytes that do not decode) or "fail"
\* (readFile failed), and "fail" for any other operation that threw.
Event(op, dir, res) == [op |-> op, dir |-> dir, res |-> res]

Running(call) == call.pc \notin {"idle", "done"}

Init ==
    /\ defaultCacheDirectory = Undefined
    /\ foundCacheDir \in {Some(LocalDir), Undefined}
    /\ files = [f \in Files |-> Absent]
    /\ calls = [c \in Callers |-> IdleCall]
    /\ gets = 0
    /\ faults = 0
    /\ resolutions = 0
    /\ lastDone = Undefined

\* Mutant of Fallback: the comparison with os.tmpdir() turned round.
FallbackWrongCompare(call) ==
    ~IsDefined(call.params.cacheDirectory) /\ call.directory = TmpDir

\* Mutant of Fallback: the pin of cacheDirectory is not looked at.
FallbackIgnoresPin(call) == call.directory # TmpDir

\* Mutant of Fallback: the directory in use is not compared with os.tmpdir().
FallbackAlways(call) == ~IsDefined(call.params.cacheDirectory)

\* ------------------------------------------------------------- handleCache
\* line 135-136
Fallback(call) ==
    ~IsDefined(call.params.cacheDirectory) /\ call.directory # TmpDir

\* lines 118-132 up to the await in read: compute the file name, which may
\* throw, and issue the read.
EnterHandleCache(call, directory) ==
    IF FilenameThrows(call.options)
    THEN [call EXCEPT !.pc = "done", !.directory = directory,
                      !.ret = Thrown("filename", directory)]
    ELSE [call EXCEPT !.pc = "read", !.directory = directory,
                      !.options = OptionsAfterFilename(call.options)]

\* return <value> / throw err out of handleCache and so out of get
Finish(call, ret) == [call EXCEPT !.pc = "done", !.ret = ret]

Log(call, op, res) ==
    [call EXCEPT !.log = Append(call.log, Event(op, call.directory, res))]

\* Mutant of FailOrFallback: a write error without fallback is dropped and the
\* computed result returned.
FailOrFallbackReturnsResult(call, op) ==
    IF Fallback(call)
    THEN EnterHandleCache(call, TmpDir)
    ELSE IF op = "write"
         THEN Finish(call, Returned(The(call.result)))
         ELSE Finish(call, Thrown(op, call.directory))

\* Mutant of FailOrFallback: the retry against os.tmpdir() does not read the
\* entry there, it starts at makeDir.
FailOrFallbackSkipsRead(call, op) ==
    IF Fallback(call)
    THEN [call EXCEPT !.pc = "mkdir", !.directory = TmpDir]
    ELSE Finish(call, Thrown(op, call.directory))

\* lines 142-146 and 156-161: retry against os.tmpdir(), or throw
FailOrFallback(call, op) ==
    IF Fallback(call)
    THEN EnterHandleCache(call, TmpDir)
    ELSE Finish(call, Thrown(op, call.directory))

\* A step of call c touches the cache: the other running calls are no longer
\* alone with it.
Stepped(c, call) ==
    [d \in Callers |->
        IF d = c THEN call
        ELSE IF Running(calls[d]) THEN [calls[d] EXCEPT !.prior = Undefined]
        ELSE calls[d]]

\* What a later call remembers of a finished one.
Summary(call) ==
    [params |-> call.params, status |-> call.ret.status, start |-> call.start,
     directory |-> call.directory]

Done(call) == IF call.pc = "done" THEN Some(Summary(call)) ELSE lastDone

\* ------------------------------------------------------------------ actions
\* module.exports, lines 192-206, and handleCache to its first await.
\* line 200: findCacheDir({ name: "babel-loader" }) || os.tmpdir()
ResolveDefault ==
    IF IsDefined(foundCacheDir) THEN The(foundCacheDir) ELSE TmpDir

\* Mutant of NeedsResolve: the default is resolved again by every get that is
\* not pinned.
NeedsResolveAlways(p) == ~IsDefined(p.cacheDirectory)

\* lines 195 and 198: not pinned, and the default still null
NeedsResolve(p) ==
    ~IsDefined(p.cacheDirectory) /\ ~IsDefined(defaultCacheDirectory)

Get(c, p) ==
    /\ ~Running(calls[c])
    /\ gets < MaxGets
    /\ c = "b" => calls["a"].pc # "idle"
    /\ LET pinned == IsDefined(p.cacheDirectory)
           resolve == NeedsResolve(p)
           default == IF resolve THEN Some(ResolveDefault)
                      ELSE defaultCacheDirectory
           directory == IF pinned THEN The(p.cacheDirectory) ELSE The(default)
           alone == \A d \in Callers : ~Running(calls[d])
           call == EnterHandleCache(
                       [IdleCall EXCEPT !.params = p, !.options = p.options,
                                        !.start = directory,
                                        !.prior = IF alone THEN lastDone ELSE Undefined],
                       directory)
       IN  /\ defaultCacheDirectory' = IF pinned THEN defaultCacheDirectory ELSE default
           /\ resolutions' = IF resolve THEN resolutions + 1 ELSE resolutions
           /\ calls' = [calls EXCEPT ![c] = call]
           /\ lastDone' = Done(call)
    /\ gets' = gets + 1
    /\ UNCHANGED <<foundCacheDir, files, faults>>

\* read, lines 35-40, succeeding: line 132 returns the decoded entry.
ReadHit(c) ==
    LET call == calls[c]
        f == FileOf(call.directory, call.params)
    IN  /\ call.pc = "read"
        /\ Decodes(files[f], call.params.cacheCompression)
        /\ calls' = Stepped(c, Finish(Log(call, "read", "ok"),
                                      Returned(Decode(files[f]))))
        /\ lastDone' = Some(Summary(calls'[c]))
        /\ UNCHANGED <<defaultCacheDirectory, foundCacheDir, files, gets, faults, resolutions>>

\* Mutant of ReadMiss: no try/catch around read, its error ends handleCache.
ReadMissThrows(c) ==
    LET call == calls[c]
        f == FileOf(call.directory, call.params)
    IN  /\ call.pc = "read"
        /\ ~Decodes(files[f], call.params.cacheCompression)
        /\ calls' = Stepped(c, Finish(Log(call, "read",
                                          IF files[f] = Absent THEN "absent" ELSE "corrupt"),
                                      Thrown("read", call.directory)))
        /\ lastDone' = Some(Summary(calls'[c]))
        /\ UNCHANGED <<defaultCacheDirectory, foundCacheDir, files, gets, faults, resolutions>>

\* Mutant of ReadMiss: after a miss transform is called at once, makeDir is
\* left out.
ReadMissSkipsMakeDir(c) ==
    LET call == calls[c]
        f == FileOf(call.directory, call.params)
    IN  /\ call.pc = "read"
        /\ ~Decodes(files[f], call.params.cacheCompression)
        /\ calls' = Stepped(c,
              [Log(call, "read", IF files[f] = Absent THEN "absent" ELSE "corrupt")
                   EXCEPT !.pc = "transform"])
        /\ UNCHANGED <<defaultCacheDirectory, foundCacheDir, files, gets, faults,
                       resolutions, lastDone>>

\* read throwing because the file is absent or does not decode: line 133
\* swallows the error, then lines 135-140 call makeDir.
ReadMiss(c) ==
    LET call == calls[c]
        f == FileOf(call.directory, call.params)
    IN  /\ call.pc = "read"
        /\ ~Decodes(files[f], call.params.cacheCompression)
        /\ calls' = Stepped(c,
              [Log(call, "read", IF files[f] = Absent THEN "absent" ELSE "corrupt")
                   EXCEPT !.pc = "mkdir"])
        /\ UNCHANGED <<defaultCacheDirectory, foundCacheDir, files, gets, faults,
                       resolutions, lastDone>>

\* readFile failing on an intact entry (an I/O error): swallowed the same way.
ReadFail(c) ==
    LET call == calls[c]
        f == FileOf(call.directory, call.params)
    IN  /\ call.pc = "read"
        /\ faults < MaxFaults
        /\ Decodes(files[f], call.params.cacheCompression)
        /\ faults' = faults + 1
        /\ calls' = Stepped(c, [Log(call, "read", "fail") EXCEPT !.pc = "mkdir"])
        /\ UNCHANGED <<defaultCacheDirectory, foundCacheDir, files, gets,
                       resolutions, lastDone>>

\* makeDir, line 140, succeeding: line 151 calls transform.
MakeDirOk(c) ==
    LET call == calls[c]
    IN  /\ call.pc = "mkdir"
        /\ calls' = Stepped(c, [Log(call, "mkdir", "ok") EXCEPT !.pc = "transform"])
        /\ UNCHANGED <<defaultCacheDirectory, foundCacheDir, files, gets, faults,
                       resolutions, lastDone>>

\* Mutant of MakeDirFail: the fallback also makes os.tmpdir() the default.
MakeDirFailMovesDefault(c) ==
    LET call == calls[c]
        next == FailOrFallback(Log(call, "mkdir", "fail"), "mkdir")
    IN  /\ call.pc = "mkdir"
        /\ faults < MaxFaults
        /\ faults' = faults + 1
        /\ calls' = Stepped(c, next)
        /\ lastDone' = Done(next)
        /\ defaultCacheDirectory' =
               IF Fallback(call) THEN Some(TmpDir) ELSE defaultCacheDirectory
        /\ UNCHANGED <<foundCacheDir, files, gets, resolutions>>

\* makeDir throwing: lines 141-147.
MakeDirFail(c) ==
    LET call == calls[c]
        next == FailOrFallback(Log(call, "mkdir", "fail"), "mkdir")
    IN  /\ call.pc = "mkdir"
        /\ faults < MaxFaults
        /\ faults' = faults + 1
        /\ calls' = Stepped(c, next)
        /\ lastDone' = Done(next)
        /\ UNCHANGED <<defaultCacheDirectory, foundCacheDir, files, gets, resolutions>>

\* Mutant of TransformOk: transform is called without the caller's options.
TransformOkWithoutOptions(c) ==
    LET call == calls[c]
    IN  /\ call.pc = "transform"
        /\ calls' = Stepped(c,
              [Log(call, "transform", "ok") EXCEPT
                   !.pc = "write",
                   !.result = Some(TransformOut(call.params.source,
                                       [plugins |-> Undefined, presets |-> Undefined]))])
        /\ UNCHANGED <<defaultCacheDirectory, foundCacheDir, files, gets, faults,
                       resolutions, lastDone>>

\* transform, line 151, succeeding: line 154 calls write.
TransformOk(c) ==
    LET call == calls[c]
    IN  /\ call.pc = "transform"
        /\ calls' = Stepped(c,
              [Log(call, "transform", "ok") EXCEPT
                   !.pc = "write",
                   !.result = Some(TransformOut(call.params.source, call.options))])
        /\ UNCHANGED <<defaultCacheDirectory, foundCacheDir, files, gets, faults,
                       resolutions, lastDone>>

\* Mutant of TransformFail: the error of transform is handled like the error
\* of write, with the fallback to os.tmpdir().
TransformFailFallsBack(c) ==
    LET call == calls[c]
        next == FailOrFallback(Log(call, "transform", "fail"), "transform")
    IN  /\ call.pc = "transform"
        /\ faults < MaxFaults
        /\ faults' = faults + 1
        /\ calls' = Stepped(c, next)
        /\ lastDone' = Done(next)
        /\ UNCHANGED <<defaultCacheDirectory, foundCacheDir, files, gets, resolutions>>

\* transform throwing: nothing catches it, handleCache rejects.
TransformFail(c) ==
    LET call == calls[c]
    IN  /\ call.pc = "transform"
        /\ faults < MaxFaults
        /\ faults' = faults + 1
        /\ calls' = Stepped(c, Finish(Log(call, "transform", "fail"),
                                      Thrown("transform", call.directory)))
        /\ lastDone' = Some(Summary(calls'[c]))
        /\ UNCHANGED <<defaultCacheDirectory, foundCacheDir, files, gets, resolutions>>

\* write, lines 50-55, succeeding: line 164 returns the result.
WriteOk(c) ==
    LET call == calls[c]
        f == FileOf(call.directory, call.params)
    IN  /\ call.pc = "write"
        /\ files' = [files EXCEPT
                         ![f] = Encode(The(call.result), call.params.cacheCompression)]
        /\ calls' = Stepped(c, Finish(Log(call, "write", "ok"),
                                      Returned(The(call.result))))
        /\ lastDone' = Some(Summary(calls'[c]))
        /\ UNCHANGED <<defaultCacheDirectory, foundCacheDir, gets, faults, resolutions>>

\* write throwing: lines 155-162. writeFile may fail before it touched the
\* file or after it truncated it and wrote a part.
WriteFail(c, partial) ==
    LET call == calls[c]
        f == FileOf(call.directory, call.params)
        next == FailOrFallback(Log(call, "write", "fail"), "write")
    IN  /\ call.pc = "write"
        /\ faults < MaxFaults
        /\ faults' = faults + 1
        /\ files' = IF partial THEN [files EXCEPT ![f] = Garbage] ELSE files
        /\ calls' = Stepped(c, next)
        /\ lastDone' = Done(next)
        /\ UNCHANGED <<defaultCacheDirectory, foundCacheDir, gets, resolutions>>

Next ==
    \/ \E c \in Callers, p \in Requests : Get(c, p)
    \/ \E c \in Callers : ReadHit(c)
    \/ \E c \in Callers : ReadMiss(c)
    \/ \E c \in Callers : ReadFail(c)
    \/ \E c \in Callers : MakeDirOk(c)
    \/ \E c \in Callers : MakeDirFail(c)
    \/ \E c \in Callers : TransformOk(c)
    \/ \E c \in Callers : TransformFail(c)
    \/ \E c \in Callers : WriteOk(c)
    \/ \E c \in Callers, partial \in BOOLEAN : WriteFail(c, partial)

Spec == Init /\ [][Next]_vars

\* One caller making its get calls one after the other, with the inputs of
\* RequestsSeq.
NextSeq ==
    \/ \E p \in RequestsSeq : Get("a", p)
    \/ ReadHit("a")
    \/ ReadMiss("a")
    \/ ReadFail("a")
    \/ MakeDirOk("a")
    \/ MakeDirFail("a")
    \/ TransformOk("a")
    \/ TransformFail("a")
    \/ WriteOk("a")
    \/ \E partial \in BOOLEAN : WriteFail("a", partial)

SpecSeq == Init /\ [][NextSeq]_vars

\* The operation call c is waiting for completes, with any of its outcomes.
Completes(c) ==
    \/ ReadHit(c)
    \/ ReadMiss(c)
    \/ ReadFail(c)
    \/ MakeDirOk(c)
    \/ MakeDirFail(c)
    \/ TransformOk(c)
    \/ TransformFail(c)
    \/ WriteOk(c)
    \/ \E partial \in BOOLEAN : WriteFail(c, partial)

\* One caller making the get calls of Requests one after the other, every
\* filesystem operation and every invocation of transform terminating.
NextOne ==
    \/ \E p \in Requests : Get("a", p)
    \/ Completes("a")

SpecOne == Init /\ [][NextOne]_vars /\ WF_vars(Completes("a"))

\* ------------------------------------------------------- reading the history
Pinned(call) == IsDefined(call.params.cacheDirectory)

\* The places in a call's log where operation op ended with res.
Events(call, op, res) ==
    {i \in DOMAIN call.log : call.log[i].op = op /\ call.log[i].res = res}

Failures(call) == {i \in DOMAIN call.log : call.log[i].res = "fail"}

TransformCount(call) ==
    Cardinality({i \in DOMAIN call.log : call.log[i].op = "transform"})

\* line 135-136 for the attempt an event belongs to
FallbackAt(call, i) == ~Pinned(call) /\ call.log[i].dir # TmpDir

\* The call was made right after an identical get returned successfully,
\* and nothing else has touched the cache since that get returned.
AfterIdenticalSuccess(call) ==
    /\ call.pc # "idle"
    /\ IsDefined(call.prior)
    /\ The(call.prior).params = call.params
    /\ The(call.prior).status = "ok"

\* -------------------------------------------------------------------- C1
\* C1 (as claimed): once a get has returned successfully, a second get with an
\* identical request, nothing else touching the cache in between, never
\* invokes Transform, whatever filesystem failures occur.
C1_HitSkipsTransform ==
    \A c \in Callers :
        AfterIdenticalSuccess(calls[c]) => TransformCount(calls[c]) = 0

\* C1 (amended): once a get has returned successfully without falling back to
\* the temp directory, a second get with an identical request, nothing else
\* touching the cache in between, whose readFile of the entry does not fail,
\* hits on its first read and returns Transform's output without invoking
\* Transform or any other operation.
C1_HitSkipsTransformAmended ==
    \A c \in Callers :
        LET call == calls[c]
        IN  (/\ AfterIdenticalSuccess(call)
             /\ The(call.prior).directory = The(call.prior).start
             /\ call.log # <<>>
             /\ call.log[1].res # "fail")
            => /\ call.pc = "done"
               /\ call.log = <<Event("read", call.start, "ok")>>
               /\ call.ret = Returned(Expected(call.params))

C1_Witness ==
    \E c \in Callers :
        /\ AfterIdenticalSuccess(calls[c])
        /\ The(calls[c].prior).directory = The(calls[c].prior).start
        /\ calls[c].pc = "done"
        /\ calls[c].log = <<Event("read", calls[c].start, "ok")>>

\* Call c has just completed operation op with result res.
Appended(c, op, res) ==
    /\ Len(calls'[c].log) = Len(calls[c].log) + 1
    /\ calls'[c].log[Len(calls'[c].log)].op = op
    /\ calls'[c].log[Len(calls'[c].log)].res = res

\* The call ended, by the throw of the operation logged at i.
ThrownAt(call, i) ==
    /\ i = Len(call.log)
    /\ call.pc = "done"
    /\ call.ret = Thrown(call.log[i].op, call.log[i].dir)

\* -------------------------------------------------------------------- C2
\* C2 (as claimed): a get call in which an invocation of Transform succeeded
\* returns a value equal to Transform's output, whatever entry writes fail.
C2_StorageFailureNeverPreventsResult ==
    \A c \in Callers :
        (calls[c].pc = "done" /\ Events(calls[c], "transform", "ok") # {})
        => calls[c].ret = Returned(Expected(calls[c].params))

\* C2 (amended): a get call in which an invocation of Transform succeeded
\* returns a value equal to Transform's output if no entry write failed; if a
\* write failed it either returns that value after a successful retry against
\* the temp directory, or fails with the error of the operation that failed
\* last, where no fallback is allowed (the write itself, or the retry's
\* makeDir, transform or write). It never returns another value.
C2_StorageFailureNeverAltersResult ==
    \A c \in Callers :
        LET call == calls[c]
        IN  (call.pc = "done" /\ Events(call, "transform", "ok") # {})
            => \/ call.ret = Returned(Expected(call.params))
               \/ /\ Events(call, "write", "fail") # {}
                  /\ call.log[Len(call.log)].res = "fail"
                  /\ ~FallbackAt(call, Len(call.log))
                  /\ ThrownAt(call, Len(call.log))

C2_Witness ==
    \E c \in Callers :
        /\ calls[c].pc = "done"
        /\ Events(calls[c], "write", "fail") # {}
        /\ Events(calls[c], "write", "ok") # {}
        /\ calls[c].ret = Returned(Expected(calls[c].params))

\* -------------------------------------------------------------------- C3
\* C3: when cacheDirectory is not pinned and the directory in use is not the
\* temp directory, a makeDir failure makes get retry the whole of handleCache
\* against the temp directory (its next operation is the read of the entry
\* there), and if nothing fails after that the get returns Transform's output.
C3_FallbackOnUnwritableDirectory ==
    \A c \in Callers :
        LET call == calls[c]
        IN  \A i \in Events(call, "mkdir", "fail") :
                FallbackAt(call, i)
                => /\ i = Len(call.log)
                      => call.pc = "read" /\ call.directory = TmpDir
                   /\ i < Len(call.log)
                      => call.log[i + 1].op = "read" /\ call.log[i + 1].dir = TmpDir
                   /\ (call.pc = "done" /\ \A j \in Failures(call) : j <= i)
                      => call.ret = Returned(Expected(call.params))

C3_Witness ==
    \E c \in Callers :
        /\ calls[c].pc = "done"
        /\ \E i \in Events(calls[c], "mkdir", "fail") : FallbackAt(calls[c], i)
        /\ \E j \in Events(calls[c], "transform", "ok") : calls[c].log[j].dir = TmpDir
        /\ calls[c].ret = Returned(Expected(calls[c].params))

C5_TransformAtMostOnce ==
    \A c \in Callers : TransformCount(calls[c]) <= 1

\* -------------------------------------------------------------------- C6
\* C6: a Transform failure ends the get with exactly that error; nothing
\* follows it in the call (no second Transform, no fallback), and the failing
\* invocation writes no entry file.
C6_TransformFailurePropagates ==
    /\ [](\A c \in Callers :
            \A i \in Events(calls[c], "transform", "fail") : ThrownAt(calls[c], i))
    /\ [][\A c \in Callers : Appended(c, "transform", "fail") => files' = files]_vars

C6_Witness ==
    \E c \in Callers :
        /\ calls[c].pc = "done"
        /\ calls[c].ret = Thrown("transform", LocalDir)
        /\ ~Pinned(calls[c])

\* -------------------------------------------------------------------- C7
\* C7: a read of an entry that is absent, unreadable or does not decode never
\* ends the get: the call goes on to makeDir in the same directory, and if
\* nothing fails after the read it invokes Transform, writes the entry (the
\* file then holding the encoding of Transform's output) and returns
\* Transform's output.
C7_CorruptEntryIsMiss ==
    /\ [](\A c \in Callers :
            LET call == calls[c]
            IN  /\ call.ret.errOp # "read"
                /\ \A i \in DOMAIN call.log :
                     (call.log[i].op = "read" /\ call.log[i].res # "ok")
                     => /\ i = Len(call.log)
                           => call.pc = "mkdir" /\ call.directory = call.log[i].dir
                        /\ i < Len(call.log)
                           => call.log[i + 1].op = "mkdir"
                              /\ call.log[i + 1].dir = call.log[i].dir
                        /\ (call.pc = "done" /\ \A j \in Failures(call) : j <= i)
                           => /\ Len(call.log) = i + 3
                              /\ call.log[i + 2] = Event("transform", call.log[i].dir, "ok")
                              /\ call.log[i + 3] = Event("write", call.log[i].dir, "ok")
                              /\ call.ret = Returned(Expected(call.params)))
    /\ [][\A c \in Callers :
            Appended(c, "write", "ok")
            => files'[FileOf(calls[c].directory, calls[c].params)]
                 = Encode(Expected(calls[c].params), calls[c].params.cacheCompression)]_vars

C7_Witness ==
    \E c \in Callers :
        /\ calls[c].pc = "done"
        /\ calls[c].log[1] = Event("read", calls[c].start, "corrupt")
        /\ Len(calls[c].log) = 4
        /\ calls[c].ret = Returned(Expected(calls[c].params))
        /\ files[FileOf(calls[c].start, calls[c].params)].kind = "data"

\* -------------------------------------------------------------------- C8
\* C8: a get with a string cacheDirectory starts in exactly that directory
\* and leaves the process-wide default as it was; any other get starts in the
\* default, which is assigned at most once, to findCacheDir's directory or
\* else the temp directory, and never changes once set, so that all calls in
\* flight that use the default use the same directory.
C8_DirectoryResolution ==
    /\ [](/\ resolutions <= 1
          /\ resolutions = 1 <=> IsDefined(defaultCacheDirectory)
          /\ IsDefined(defaultCacheDirectory)
             => defaultCacheDirectory =
                  (IF IsDefined(foundCacheDir) THEN foundCacheDir ELSE Some(TmpDir))
          /\ \A c \in Callers :
                calls[c].pc # "idle"
                => IF Pinned(calls[c])
                   THEN calls[c].start = The(calls[c].params.cacheDirectory)
                   ELSE /\ IsDefined(defaultCacheDirectory)
                        /\ calls[c].start = The(defaultCacheDirectory))
    /\ [][/\ IsDefined(defaultCacheDirectory)
             => defaultCacheDirectory' = defaultCacheDirectory
          /\ \A c \in Callers :
                (gets' = gets + 1 /\ calls'[c] # calls[c] /\ Pinned(calls'[c]))
                => /\ defaultCacheDirectory' = defaultCacheDirectory
                   /\ resolutions' = resolutions]_vars

C8_Witness ==
    /\ \A c \in Callers : Running(calls[c]) /\ ~Pinned(calls[c])
    /\ calls["a"].log = <<>>
    /\ calls["b"].log = <<>>
    /\ gets = 2
    /\ resolutions = 1

\* -------------------------------------------------------------------- C9
\* C9: a write failure where no fallback is allowed (cacheDirectory pinned, or
\* the directory in use the temp directory, which includes the retry after a
\* failed write in the preferred directory) ends the get with the write error.
C9_WriteErrorsSurface ==
    \A c \in Callers :
        \A i \in Events(calls[c], "write", "fail") :
            ~FallbackAt(calls[c], i) => ThrownAt(calls[c], i)

C9_Witness ==
    \E c \in Callers :
        /\ calls[c].pc = "done"
        /\ Cardinality(Events(calls[c], "write", "fail")) = 2
        /\ calls[c].ret = Thrown("write", TmpDir)

\* ------------------------------------------------------------------- C10
\* C10: under every interleaving of the steps of concurrent get calls, every
\* call that returns yields Transform's output for its request, an entry file
\* that decodes holds the encoding of Transform's output for its key, every
\* completed write leaves exactly that encoding in the file, and when two
\* calls have both ended by writing the same file the file holds it.
C10_ConcurrentSameKey ==
    /\ [](/\ \A c \in Callers :
                (calls[c].pc = "done" /\ calls[c].ret.status = "ok")
                => calls[c].ret = Returned(Expected(calls[c].params))
          /\ \A d \in Dirs, p \in Requests :
                (~FilenameThrows(p.options) /\ files[FileOf(d, p)].kind = "data")
                => files[FileOf(d, p)] = Encode(Expected(p), p.cacheCompression)
          /\ \A c, d \in Callers :
                (/\ c # d
                 /\ calls[c].pc = "done" /\ calls[d].pc = "done"
                 /\ Events(calls[c], "write", "ok") # {}
                 /\ Events(calls[d], "write", "ok") # {}
                 /\ FileOf(calls[c].directory, calls[c].params)
                      = FileOf(calls[d].directory, calls[d].params))
                => files[FileOf(calls[c].directory, calls[c].params)]
                     = Encode(Expected(calls[c].params),
                              calls[c].params.cacheCompression))
    /\ [][\A c \in Callers :
            Appended(c, "write", "ok")
            => files'[FileOf(calls[c].directory, calls[c].params)]
                 = Encode(TransformOut(calls[c].params.source, calls[c].params.options),
                          calls[c].params.cacheCompression)]_vars

C10_Witness ==
    /\ \A c \in Callers :
          /\ calls[c].pc = "done"
          /\ calls[c].log = <<Event("read", calls[c].start, "absent"),
                              Event("mkdir", calls[c].start, "ok"),
                              Event("transform", calls[c].start, "ok"),
                              Event("write", calls[c].start, "ok")>>
    /\ FileOf(calls["a"].directory, calls["a"].params)
         = FileOf(calls["b"].directory, calls["b"].params)

\* -------------------------------------------------------------------- C11
\* C11 (as claimed): every options value of the requests is serializable, so
\* no get call fails in the derivation of the key, also when an element of
\* plugins or presets lacks file.request, file.resolved or file altogether.
C11_KeyDerivationNeverFails ==
    \A c \in Callers :
        calls[c].pc # "idle" => calls[c].ret.errOp # "filename"

\* -------------------------------------------------------------------- C12
\* What follows the last "/node_modules/" of a path, as the claim reads it:
\* the last occurrence of the marker in the string, by position.
AfterLastMarker(p) ==
    LET hits == {i \in 2..(Len(p) - 1) : p[i] = Marker}
    IN  IF hits = {} THEN p
        ELSE LET i == CHOOSE j \in hits : \A k \in hits : j >= k
             IN  SubSeq(p, i + 1, Len(p))

\* Two optional paths that differ at most in the prefix up to and including
\* the last marker.
SamePathButPrefix(m1, m2) ==
    \/ m1 = m2
    \/ /\ IsDefined(m1) /\ IsDefined(m2)
       /\ AfterLastMarker(The(m1)) # The(m1)
       /\ AfterLastMarker(The(m2)) # The(m2)
       /\ AfterLastMarker(The(m1)) = AfterLastMarker(The(m2))

SameItemsButPrefix(arr1, arr2) ==
    \/ arr1 = arr2
    \/ /\ IsDefined(arr1) /\ IsDefined(arr2)
       /\ Len(The(arr1)) = Len(The(arr2))
       /\ \A i \in 1..Len(The(arr1)) :
             LET f1 == The(arr1)[i].file
                 f2 == The(arr2)[i].file
             IN  /\ IsDefined(f1) /\ IsDefined(f2)
                 /\ SamePathButPrefix(The(f1).request, The(f2).request)
                 /\ SamePathButPrefix(The(f1).resolved, The(f2).resolved)

SameOptionsButPrefix(o1, o2) ==
    /\ SameItemsButPrefix(o1.plugins, o2.plugins)
    /\ SameItemsButPrefix(o1.presets, o2.presets)

\* The call was made right after a get returned successfully from the
\* directory it started in, with a request that differs from this one at most
\* in those path prefixes of its options.
AfterSuccessButPrefix(call) ==
    /\ call.pc # "idle"
    /\ IsDefined(call.prior)
    /\ The(call.prior).status = "ok"
    /\ The(call.prior).directory = The(call.prior).start
    /\ The(call.prior).start = call.start
    /\ [The(call.prior).params EXCEPT !.options = call.params.options] = call.params
    /\ SameOptionsButPrefix(The(call.prior).params.options, call.params.options)

\* Both requests have a key, and the same one.
SameKey(p, q) ==
    /\ ~FilenameThrows(p.options)
    /\ ~FilenameThrows(q.options)
    /\ KeyOf(p) = KeyOf(q)

\* C12 (as claimed): two options values that differ only in the path prefix up
\* to and including the last "/node_modules/" of file.request / file.resolved
\* yield the same key, so a get for one, made after a get for the other stored
\* its entry in the same directory, hits on its read unless readFile fails.
C12_NormalizationInvariance ==
    \A c \in Callers :
        LET call == calls[c]
        IN  AfterSuccessButPrefix(call)
            => /\ SameKey(call.params, The(call.prior).params)
               /\ (call.log # <<>> /\ call.log[1].res # "fail")
                  => call.log[1] = Event("read", call.start, "ok")

\* -------------------------------------------------------------------- C13
\* The triple the key is derived from: source, identifier and the options
\* with the paths of plugins and presets normalized (lines 91-105).
Triple(p) ==
    <<p.source, p.cacheIdentifier,
      [plugins |-> MapUpdatePath(p.options.plugins),
       presets |-> MapUpdatePath(p.options.presets)]>>

SameTriple(p, q) ==
    /\ ~FilenameThrows(p.options)
    /\ ~FilenameThrows(q.options)
    /\ Triple(p) = Triple(q)

\* C13: the entry file is determined by (source, identifier, normalized
\* options). A get made after a get with the same triple returned from the
\* same directory, with the same compression, hits on its read unless
\* readFile fails; the second get of the process, when its triple differs
\* from the first one's (the identifier changed from v1 to v2, say), finds no
\* entry and returns only after invoking Transform; and the value a get
\* returns is Transform's output for a request with the same triple.
C13_KeyIsFunctionOfTriple ==
    \A c \in Callers :
        LET call == calls[c]
        IN  /\ (/\ call.pc # "idle"
                /\ IsDefined(call.prior)
                /\ The(call.prior).status = "ok"
                /\ The(call.prior).directory = The(call.prior).start
                /\ The(call.prior).start = call.start
                /\ The(call.prior).params.cacheCompression = call.params.cacheCompression
                /\ SameTriple(The(call.prior).params, call.params)
                /\ call.log # <<>>
                /\ call.log[1].res # "fail")
               => call.log[1] = Event("read", call.start, "ok")
            /\ (/\ call.pc # "idle"
                /\ gets = 2
                /\ IsDefined(call.prior)
                /\ ~SameTriple(The(call.prior).params, call.params)
                /\ call.log # <<>>)
               => /\ call.log[1] = Event("read", call.start, "absent")
                  /\ call.ret.status = "ok" => Events(call, "transform", "ok") # {}
            /\ (call.pc = "done" /\ call.ret.status = "ok")
               => \E q \in AllRequests :
                     /\ SameTriple(q, call.params)
                     /\ call.ret = Returned(Expected(q))

C13_Witness ==
    \E c \in Callers :
        /\ gets = 2
        /\ IsDefined(calls[c].prior)
        /\ The(calls[c].prior).status = "ok"
        /\ The(calls[c].prior).params = [calls[c].params EXCEPT !.cacheIdentifier = "v1"]
        /\ calls[c].params.cacheIdentifier = "v2"
        /\ calls[c].pc = "done"
        /\ calls[c].ret = Returned(Expected(calls[c].params))
        /\ Events(calls[c], "transform", "ok") # {}

\* -------------------------------------------------------------------- C14
LastEvent(call) == call.log[Len(call.log)]

Entries(call) ==
    Cardinality(Events(call, "read", "ok") \cup Events(call, "read", "absent")
                \cup Events(call, "read", "corrupt") \cup Events(call, "read", "fail"))
    + (IF call.pc = "read" \/ call.ret.errOp = "filename" THEN 1 ELSE 0)

\* C15: within one get call handleCache is entered at most twice, the second
\* time only by a call that is not pinned and did not start in the temp
\* directory, and then with the temp directory, where fallback is disabled;
\* and, every operation terminating, every get call terminates with a result
\* or an error.
C15_OneRetry ==
    /\ [](\A c \in Callers :
            LET call == calls[c]
            IN  call.pc # "idle"
                => /\ Entries(call) \in {1, 2}
                   /\ Entries(call) = 1 => call.directory = call.start
                   /\ Entries(call) = 2
                      => /\ ~Pinned(call)
                         /\ call.start # TmpDir
                         /\ call.directory = TmpDir
                         /\ ~Fallback(call)
                   /\ call.pc = "done" => call.ret.status \in {"ok", "error"})
    /\ \A c \in Callers : Running(calls[c]) ~> calls[c].pc = "done"

C15_Witness ==
    \E c \in Callers :
        /\ Entries(calls[c]) = 2
        /\ calls[c].pc = "done"
        /\ calls[c].ret.status = "error"

\* -------------------------------------------------------------------- C16
\* The read logged at i missed: it threw, whatever the reason.
MissAt(call, i, dir) ==
    /\ i \in DOMAIN call.log
    /\ call.log[i].op = "read"
    /\ call.log[i].dir = dir
    /\ call.log[i].res \in {"absent", "corrupt", "fail"}

\* The operation the call is waiting for, or has completed at i, comes
\* right after the operations before i that its attempt on dir needs.
OrderedAt(call, op, i, dir) ==
    CASE op = "read" ->
             i = 1 \/ (call.log[i - 1].dir # dir /\ call.log[i - 1].res = "fail")
      [] op = "mkdir" -> MissAt(call, i - 1, dir)
      [] op = "transform" ->
             /\ i > 2
             /\ call.log[i - 1] = Event("mkdir", dir, "ok")
             /\ MissAt(call, i - 2, dir)
      [] op = "write" ->
             /\ i > 3
             /\ call.log[i - 1] = Event("transform", dir, "ok")
             /\ call.log[i - 2] = Event("mkdir", dir, "ok")
             /\ MissAt(call, i - 3, dir)

C17_FallbackKeepsDefault ==
    /\ IsDefined(defaultCacheDirectory)
       => defaultCacheDirectory = Some(ResolveDefault)
    /\ \A c \in Callers :
          LET call == calls[c]
          IN  (call.pc # "idle" /\ ~Pinned(call))
              => /\ defaultCacheDirectory = Some(ResolveDefault)
                 /\ call.start = ResolveDefault
                 /\ call.directory \in {ResolveDefault, TmpDir}

C17_Witness ==
    \E c \in Callers :
        /\ calls[c].pc = "done"
        /\ ~Pinned(calls[c])
        /\ IsDefined(calls[c].prior)
        /\ ~IsDefined(The(calls[c].prior).params.cacheDirectory)
        /\ The(calls[c].prior).directory # The(calls[c].prior).start
        /\ The(calls[c].prior).status = "ok"
        /\ calls[c].start = LocalDir
        /\ calls[c].log[1].dir = LocalDir

\* -------------------------------------------------------------------- C18
\* C18: the derivation of the key leaves the caller's options as they were
\* passed to get, paths of plugins and presets included, at every moment of
\* the call; and the result of every transform invocation of the call, the
\* one of a fallback retry included, is transform's output for the source
\* and the options as passed.
C18_RequestUnaltered ==
    \A c \in Callers :
        LET call == calls[c]
        IN  call.pc # "idle"
            => /\ call.options = call.params.options
               /\ IsDefined(call.result)
                  => The(call.result) = TransformOut(call.params.source,
                                                     call.params.options)

C18_Witness ==
    \E c \in Callers :
        /\ Cardinality(Events(calls[c], "transform", "ok")) = 2
        /\ calls[c].params.options = OptionsA
        /\ calls[c].options = OptionsA
        /\ calls[c].result = Some(Expected(calls[c].params))

\* -------------------------------------------------------------------- C19
\* The call is the second get of the process, made after a first get
\* returned successfully whose request differs in cacheCompression only.
AfterOtherCompression(call) ==
    /\ call.pc # "idle"
    /\ gets = 2
    /\ IsDefined(call.prior)
    /\ The(call.prior).status = "ok"
    /\ The(call.prior).params =
           [call.params EXCEPT !.cacheCompression = ~call.params.cacheCompression]
    /\ call.log # <<>>

\* C19: the entries of the two compression settings are different files, the
\* name ending in ".gz" exactly when cacheCompression is true. A get made
\* after an otherwise identical get with the other setting stored its entry
\* finds no entry, returns only after invoking transform, touches no file but
\* the one of its own setting, and leaves the first get's entry as stored.
C19_CompressionDisjoint ==
    \A c \in Callers :
        LET call == calls[c]
        IN  AfterOtherCompression(call)
            => /\ call.log[1] = Event("read", call.start, "absent")
               /\ call.ret.status = "ok" => Events(call, "transform", "ok") # {}
               /\ files[FileOf(The(call.prior).directory, The(call.prior).params)]
                     = Encode(Expected(The(call.prior).params),
                              The(call.prior).params.cacheCompression)
               /\ \A f \in Files :
                     files[f] # Absent
                     => \/ f = FileOf(The(call.prior).directory, The(call.prior).params)
                        \/ /\ f.gz = call.params.cacheCompression
                           /\ f = FileOf(f.dir, call.params)
                           /\ f.dir \in {call.start, TmpDir}

C19_Witness ==
    \E c \in Callers :
        /\ AfterOtherCompression(calls[c])
        /\ calls[c].params.cacheCompression
        /\ calls[c].pc = "done"
        /\ LastEvent(calls[c]) = Event("write", calls[c].start, "ok")
        /\ calls[c].ret = Returned(Expected(calls[c].params))

\* -------------------------------------------------------------------- C20
\* The call, not pinned, was made right after an identical get returned
\* successfully with its entry in the temp directory, reached by fallback;
\* it missed in the default directory and makeDir failed there again.
AfterFallbackSuccess(call) ==
    /\ AfterIdenticalSuccess(call)
    /\ ~Pinned(call)
    /\ The(call.prior).start # TmpDir
    /\ The(call.prior).directory = TmpDir
    /\ Len(call.log) >= 2
    /\ MissAt(call, 1, call.start)
    /\ call.log[2] = Event("mkdir", call.start, "fail")

\* C20: when creating the default directory fails for a get that is not
\* pinned, made after an identical get stored its result in the temp
\* directory by fallback, the get falls back to the temp directory, and,
\* unless readFile fails, hits the entry there and returns it without
\* invoking transform.
C20_FallbackEntryReused ==
    \A c \in Callers :
        LET call == calls[c]
        IN  AfterFallbackSuccess(call)
            => /\ call.directory = TmpDir
               /\ TransformCount(call) = 0 \/ call.log[3].res = "fail"
               /\ (Len(call.log) >= 3 /\ call.log[3].res # "fail")
                  => /\ call.log = <<call.log[1],
                                     Event("mkdir", call.start, "fail"),
                                     Event("read", TmpDir, "ok")>>
                     /\ call.pc = "done"
                     /\ call.ret = Returned(Expected(call.params))

C20_Witness ==
    \E c \in Callers :
        /\ AfterFallbackSuccess(calls[c])
        /\ calls[c].pc = "done"
        /\ calls[c].log = <<Event("read", LocalDir, "absent"),
                            Event("mkdir", LocalDir, "fail"),
                            Event("read", TmpDir, "ok")>>
        /\ calls[c].ret = Returned(Expected(calls[c].params))


====
